---- MODULE Spec2Model ----
(***************************************************************************)
(* The WebRing component (src/app/components/WebRing.tsx): the layout      *)
(* effect that builds a ring of site nodes and a d3 force simulation for   *)
(* it, the simulation's timer step, the animation-frame draw (updateDOM),  *)
(* the drag handlers, the click and hover handlers of the circles, the    *)
(* highlight effect and the zoom behaviour.                                *)
(*                                                                         *)
(* Numbers.  alpha is kept in fixed point, AlphaInit units to 1.0; the     *)
(* increment of a tick is truncated toward zero, so alpha never passes its *)
(* target and never reaches it from a distance of less than 1/AlphaDecay   *)
(* units.  The camera scale k is kept in thousandths.  Coordinates are     *)
(* sample points of the render surface.                                    *)
(***************************************************************************)
EXTENDS Integers, Sequences, FiniteSets, TLC

----------------------------------------------------------------------------
(* Bounds of the model. *)

\* Site objects that exist in the page (webringData.sites draws from them).
MaxSites == 3
\* Coordinates of the render surface are 0..MaxCoord.
MaxCoord == 1
\* Pointers that can hold a drag gesture at once (mouse, touches).
MaxPointers == 2
\* Layout builds (runs of the layout effect past its early return).
MaxBuilds == 2
\* Ticks of one simulation that the lifecycle specification follows.
MaxTicks == 2

----------------------------------------------------------------------------
(* Program constants. *)

\* d3.forceSimulation starts with alpha = 1: one unit of alpha is 1/50000.
AlphaInit == 50000
\* conf.forces.alphaDecay = 0.02, in percent.
AlphaDecayPct == 2
\* simulation.alphaTarget(0.3) of dragstart.
AlphaTargetDrag == (3 * AlphaInit) \div 10
\* simulation.alphaTarget(0) of dragend, and the target of a new simulation.
AlphaTargetRest == 0
\* d3's alphaMin = 0.001: the timer stops once alpha is below it.
AlphaMin == AlphaInit \div 1000
\* updateDOM: simulation.alpha() < 0.5
ZoomAlpha == AlphaInit \div 2
\* updateDOM: simulation.alpha() < 0.1
EndAlpha == AlphaInit \div 10
\* minScale = 0.5 and maxScale = 2, in thousandths.
MinScale == 500
MaxScale == 2000
\* d3.zoomIdentity has k = 1.
IdentityScale == 1000
\* Math.max(0.1, ...) of initialScale, in thousandths.
FloorScale == 100

----------------------------------------------------------------------------
(* Values. *)

SiteIds == 1..MaxSites
Coords == 0..MaxCoord
Pointers == 1..MaxPointers
\* Sample points of the surface, for Math.random() * width / height and for
\* the pointer's coordinates.
Points == {<<c, c>> : c \in Coords}
\* What the forces and the velocity decay can leave a node's velocity at.
Velocities == {<<0, 0>>, <<1, 1>>, <<-1, -1>>}

SortFields == {"name", "program", "year", "none"}
SortDirections == {"asc", "desc", "none"}

\* A character is 2 * letter + (1 if lower case): site names are one letter.
ToLowerCase(c) == 2 * (c \div 2) + 1

\* The site records of the page: name, program and year of each site object.
SiteName(s) == CASE s = 1 -> 4 [] s = 2 -> 3 [] s = 3 -> 7 [] OTHER -> 2
SiteProgram(s) == 2 * (1 + (s % 2))
SiteYear(s) == 2020 + ((MaxSites + 1 - s) \div 2)

\* Sequences of distinct site objects of length at most MaxSites.
RECURSIVE SiteLists(_)
SiteLists(n) ==
    IF n = 0 THEN {<< >>}
    ELSE LET shorter == SiteLists(n - 1)
         IN shorter \cup {Append(l, s) : l \in {m \in shorter : Len(m) = n - 1},
                                         s \in SiteIds}
AllSiteLists == {l \in SiteLists(MaxSites) :
                   \A i, j \in 1..Len(l) : i # j => l[i] # l[j]}

Range(f) == {f[i] : i \in DOMAIN f}

----------------------------------------------------------------------------
(* The state. *)

VARIABLES
    props,      \* the component's props: [sites, sortField, sortDirection]
    mounted,    \* whether the layout effect has run for the first time
    heap,       \* the site objects, which every build and simulation shares
    sims,       \* the simulations built so far, with their closures' variables
    svgOf,      \* the build whose svg is in the container (0: it is empty)
    gestures,   \* per pointer: << >>, or <<build, site, moved>> of its drag gesture
    highlight,  \* the props hoveredSite and hoveredProgram
    fill,       \* per site: the fill its circle in the container is set to
    over,       \* the site whose circle the pointer is over (0: none)
    opened      \* the sites whose link the latest pointer-up opened

vars == <<props, mounted, heap, sims, svgOf, gestures, highlight, fill, over, opened>>

\* conf.node.hoverColor and conf.node.fillColor; NoCircle for a site that has
\* no circle in the container.
HoverColor == "#fbcb97"
FillColor == "#333333"
NoCircle == ""

\* A site object before any build has touched it.
FreshNode == [id |-> << >>, x |-> 0, y |-> 0, vx |-> 0, vy |-> 0,
              fx |-> << >>, fy |-> << >>]

Sims == 1..Len(sims)
NodesOf(i) == Range(sims[i].nodes)
\* event.active of d3-drag: the gestures of one drag behaviour in progress.
Active(g, i) == Cardinality({p \in Pointers : g[p] # << >> /\ g[p][1] = i})

----------------------------------------------------------------------------
(* The topology build: sort, ids and positions, links. *)

\* aValue / bValue of the comparator.
SortKey(s, field) ==
    CASE field = "name" -> ToLowerCase(SiteName(s))
      [] field = "program" -> ToLowerCase(SiteProgram(s))
      [] field = "year" -> SiteYear(s)
      [] OTHER -> 0

\* The comparator of sortedSites: negative when a goes before b.
Compare(a, b, field, dir) ==
    IF dir = "asc" THEN SortKey(a, field) - SortKey(b, field)
    ELSE SortKey(b, field) - SortKey(a, field)

\* Array.prototype.sort is stable: s goes before the first element that the
\* comparator puts after it.
RECURSIVE InsertSorted(_, _, _, _)
InsertSorted(sorted, s, field, dir) ==
    IF sorted = << >> THEN <<s>>
    ELSE IF Compare(Head(sorted), s, field, dir) > 0 THEN <<s>> \o sorted
    ELSE <<Head(sorted)>> \o InsertSorted(Tail(sorted), s, field, dir)

RECURSIVE SortFrom(_, _, _, _)
SortFrom(sorted, rest, field, dir) ==
    IF rest = << >> THEN sorted
    ELSE SortFrom(InsertSorted(sorted, Head(rest), field, dir), Tail(rest), field, dir)

SortedSites(sites, field, dir) == SortFrom(<< >>, sites, field, dir)

\* sortedSites.forEach: the id node-<index> and a random position; then
\* d3.forceSimulation's initializeNodes, which keeps a velocity and a fixed
\* position the object already has.
InitNode(n, index, pt) == [n EXCEPT !.id = <<index>>, !.x = pt[1], !.y = pt[2]]

\* The link target without the wrap to the first node.
LinkTargetNoWrap(i, n) == i

\* The link of index i-1: from node-<i-1> to node-<(i-1+1) % length>.
LinkTarget(i, n) == i % n

Links(sorted) ==
    [i \in 1..Len(sorted) |-> [source |-> i - 1, target |-> LinkTarget(i, Len(sorted))]]

\* The simulation and the closure variables of one run of the effect.
NewSimulation(sorted) ==
    [nodes |-> sorted,
     links |-> Links(sorted),
     alpha |-> AlphaInit,
     alphaTarget |-> AlphaTargetRest,
     running |-> TRUE,
     simulationEnded |-> FALSE,
     initialZoomApplied |-> TRUE,
     frameScheduled |-> FALSE,
     pending |-> 0,
     drawn |-> << >>,
     k |-> IdentityScale,
     fitStarts |-> 0,
     lowDraws |-> 0,
     ticks |-> 0]

\* The body of the layout effect for props p; pts are the points that
\* Math.random() can give.
LayoutEffect(p, pts) ==
    IF Len(p.sites) = 0
    THEN UNCHANGED <<heap, sims, svgOf>>
    ELSE /\ Len(sims) < MaxBuilds
         /\ LET sorted == SortedSites(p.sites, p.sortField, p.sortDirection)
            IN \E pos \in [Range(sorted) -> pts] :
                 /\ heap' = [s \in SiteIds |->
                               IF s \in Range(sorted)
                               THEN InitNode(heap[s],
                                             (CHOOSE i \in 1..Len(sorted) : sorted[i] = s) - 1,
                                             pos[s])
                               ELSE heap[s]]
                 /\ sims' = Append(sims, NewSimulation(sorted))
                 /\ svgOf' = Len(sims) + 1

\* The circles in the container after the layout effect for props p: the
\* early return leaves them, a build replaces them by new ones of the default
\* fill.
LayoutFill(p) ==
    IF Len(p.sites) = 0 THEN fill
    ELSE [s \in SiteIds |-> IF s \in Range(p.sites) THEN FillColor ELSE NoCircle]

\* hoveredProgram === d.program || hoveredSite === d.name
Highlighted(h, s) == h.program = <<SiteProgram(s)>> \/ h.site = <<SiteName(s)>>

\* The highlight effect for the keys h on the circles of fills f.
HighlightEffect(h, f) ==
    [s \in SiteIds |->
        IF f[s] = NoCircle THEN NoCircle
        ELSE IF Highlighted(h, s) THEN HoverColor ELSE FillColor]

\* The first run of the effects, after the component has mounted: the layout
\* effect, then the highlight effect.
Mount(pts) ==
    /\ ~mounted
    /\ mounted' = TRUE
    /\ LayoutEffect(props, pts)
    /\ fill' = HighlightEffect(highlight, LayoutFill(props))
    /\ over' = IF Len(props.sites) = 0 THEN over ELSE 0
    /\ UNCHANGED <<props, gestures, highlight, opened>>

\* A render with new props (a new webringData, sortField or sortDirection)
\* runs the effect again; the effect returns no cleanup.
Rerender(p, pts) ==
    /\ mounted
    /\ props' = p
    /\ LayoutEffect(p, pts)
    /\ fill' = LayoutFill(p)
    /\ over' = IF Len(p.sites) = 0 THEN over ELSE 0
    /\ UNCHANGED <<mounted, gestures, highlight, opened>>

\* A render with new hoveredSite or hoveredProgram runs the highlight effect.
SetHighlight(h) ==
    /\ mounted
    /\ h # highlight
    /\ highlight' = h
    /\ fill' = HighlightEffect(h, fill)
    /\ UNCHANGED <<props, mounted, heap, sims, svgOf, gestures, over, opened>>

\* mouseenter and mouseleave of a circle in the container.
mouseenter(s) ==
    /\ over = 0
    /\ fill[s] # NoCircle
    /\ over' = s
    /\ fill' = [fill EXCEPT ![s] = HoverColor]
    /\ UNCHANGED <<props, mounted, heap, sims, svgOf, gestures, highlight, opened>>

mouseleave(s) ==
    /\ over = s
    /\ over' = 0
    /\ fill' = [fill EXCEPT ![s] = FillColor]
    /\ UNCHANGED <<props, mounted, heap, sims, svgOf, gestures, highlight, opened>>

----------------------------------------------------------------------------
(* The simulation: d3's timer step, which ticks and notifies 'tick'. *)

Min(a, b) == IF a < b THEN a ELSE b
Max(a, b) == IF a > b THEN a ELSE b
\* Division that truncates toward zero.
Trunc(n, d) == IF n >= 0 THEN n \div d ELSE -((-n) \div d)

\* The tick with the difference taken the wrong way round.
AlphaNextAwayFromTarget(alpha, alphaTarget) ==
    alpha + Trunc((alpha - alphaTarget) * AlphaDecayPct, 100)

\* tick with an alphaDecay of 0.
AlphaNextNoDecay(alpha, alphaTarget) == alpha

\* tick: alpha += (alphaTarget - alpha) * alphaDecay
AlphaNext(alpha, alphaTarget) ==
    alpha + Trunc((alphaTarget - alpha) * AlphaDecayPct, 100)

\* The velocities the four forces and the velocity decay can leave node n
\* of a simulation of count nodes with, the node staying on the surface. A
\* single node feels no force: its self-link pulls it both ways alike, and
\* charge and collision need a second node.
ForceOutcomes(n, count) ==
    IF count = 1 THEN {<<0, 0>>}
    ELSE {v \in Velocities : n.x + v[1] \in Coords /\ n.y + v[2] \in Coords}

\* tick: a free coordinate moves by its velocity, a fixed one is put at its
\* fixed position with velocity 0.
Integrate(n, v) ==
    [n EXCEPT !.vx = IF n.fx = << >> THEN v[1] ELSE 0,
              !.x = IF n.fx = << >> THEN n.x + v[1] ELSE n.fx[1],
              !.vy = IF n.fy = << >> THEN v[2] ELSE 0,
              !.y = IF n.fy = << >> THEN n.y + v[2] ELSE n.fy[1]]

\* The 'tick' listener without its frameScheduled test.
TickListenerUnguarded(sim) ==
    [sim EXCEPT !.frameScheduled = TRUE, !.pending = @ + 1]

\* The 'tick' listener: it asks for one animation frame unless one is
\* scheduled. pending counts the callbacks handed to requestAnimationFrame
\* that have not run.
TickListener(sim) ==
    IF ~sim.frameScheduled
    THEN [sim EXCEPT !.frameScheduled = TRUE, !.pending = @ + 1]
    ELSE sim

\* The timer's step of simulation i: tick, the 'tick' listener, and the stop
\* below alphaMin.
Step(i) ==
    /\ sims[i].running
    /\ \E vel \in [NodesOf(i) -> Velocities] :
         /\ \A s \in NodesOf(i) : vel[s] \in ForceOutcomes(heap[s], Len(sims[i].nodes))
         /\ heap' = [s \in SiteIds |->
                       IF s \in NodesOf(i) THEN Integrate(heap[s], vel[s]) ELSE heap[s]]
    /\ LET alpha == AlphaNext(sims[i].alpha, sims[i].alphaTarget)
       IN sims' = [sims EXCEPT ![i] =
                     [TickListener(@) EXCEPT !.alpha = alpha,
                                             !.running = ~(alpha < AlphaMin),
                                             !.ticks = Min(@ + 1, MaxTicks)]]
    /\ UNCHANGED <<props, mounted, svgOf, gestures, highlight, fill, over, opened>>

----------------------------------------------------------------------------
(* The camera and the draw. *)

\* The largest r with r * r <= m, for m below hi * hi.
RECURSIVE SqrtBetween(_, _, _)
SqrtBetween(m, lo, hi) ==
    IF hi - lo <= 1 THEN lo
    ELSE LET mid == (lo + hi) \div 2
         IN IF mid * mid <= m THEN SqrtBetween(m, mid, hi) ELSE SqrtBetween(m, lo, mid)

\* initialScale = Math.max(0.1, 1 / Math.sqrt(length / 20)), in thousandths:
\* 1000 / sqrt(n / 20) is sqrt(20000000 / n).
InitialScale(n) == Max(FloorScale, SqrtBetween(20000000 \div n, 0, 5000))

\* The scale a user gesture can give: constrained to the scaleExtent.
ConstrainScale(k) == Max(MinScale, Min(MaxScale, k))

\* The condition without its one-shot flag.
FitDueWithoutFlag(sim) == sim.alpha < ZoomAlpha

\* !initialZoomApplied && simulation.alpha() < 0.5
FitDue(sim) == ~sim.initialZoomApplied /\ sim.alpha < ZoomAlpha

\* updateDOM without its frameScheduled = false.
FlagAfterDrawKept == TRUE

\* frameScheduled = false, the first statement of updateDOM.
FlagAfterDraw == FALSE

\* What updateDOM writes: cx, cy of every circle, and x1, y1, x2, y2 of every
\* line from its source and target nodes.
Drawing(sim) ==
    [circles |-> [j \in 1..Len(sim.nodes) |-> <<heap[sim.nodes[j]].x, heap[sim.nodes[j]].y>>],
     lines |-> [j \in 1..Len(sim.links) |->
                  <<heap[sim.nodes[sim.links[j].source + 1]].x,
                    heap[sim.nodes[sim.links[j].source + 1]].y,
                    heap[sim.nodes[sim.links[j].target + 1]].x,
                    heap[sim.nodes[sim.links[j].target + 1]].y>>]]

\* Whether updateDOM leaves frameScheduled set.

\* The animation frame callback of simulation i. zoom.transform sets the
\* transform it is given; the scaleExtent constrains only zoom gestures.
\* fitStarts counts the transitions started, lowDraws the draws that saw
\* alpha below 0.5 (both stop counting at 2).
UpdateDOM(i) ==
    /\ sims[i].pending > 0
    /\ LET sim == sims[i]
       IN sims' = [sims EXCEPT ![i] =
                     [sim EXCEPT !.frameScheduled = FlagAfterDraw,
                                 !.pending = @ - 1,
                                 !.drawn = Drawing(sim),
                                 !.initialZoomApplied = IF FitDue(sim) THEN TRUE ELSE @,
                                 !.k = IF FitDue(sim) THEN InitialScale(Len(sim.nodes)) ELSE @,
                                 !.fitStarts = IF FitDue(sim) THEN Min(@ + 1, 2) ELSE @,
                                 !.lowDraws = IF sim.alpha < ZoomAlpha THEN Min(@ + 1, 2) ELSE @,
                                 !.simulationEnded = IF sim.alpha < EndAlpha THEN TRUE ELSE @]]
    /\ UNCHANGED <<props, mounted, heap, svgOf, gestures, highlight, fill, over, opened>>

\* A zoom gesture on the svg in the container: a double click doubles the
\* scale, with shift it halves it.
UserZoom(i, in) ==
    /\ i = svgOf
    /\ sims' = [sims EXCEPT ![i].k = ConstrainScale(IF in THEN 2 * @ ELSE @ \div 2)]
    /\ sims' # sims
    /\ UNCHANGED <<props, mounted, heap, svgOf, gestures, highlight, fill, over, opened>>

----------------------------------------------------------------------------
(* The drag handlers. A gesture begins on a circle of the svg in the      *)
(* container; its later events reach it wherever the circle is then.       *)

\* dragstart without restart().
dragstartWithoutRestart(p, s) ==
    /\ svgOf # 0
    /\ gestures[p] = << >>
    /\ s \in NodesOf(svgOf)
    /\ sims' = IF Active(gestures, svgOf) = 0
               THEN [sims EXCEPT ![svgOf].alphaTarget = AlphaTargetDrag]
               ELSE sims
    /\ heap' = [heap EXCEPT ![s].fx = <<heap[s].x>>, ![s].fy = <<heap[s].y>>]
    /\ gestures' = [gestures EXCEPT ![p] = <<svgOf, s, FALSE>>]
    /\ UNCHANGED <<props, mounted, svgOf, highlight, fill, over, opened>>

dragstart(p, s) ==
    /\ svgOf # 0
    /\ gestures[p] = << >>
    /\ s \in NodesOf(svgOf)
    /\ sims' = IF Active(gestures, svgOf) = 0
               THEN [sims EXCEPT ![svgOf].alphaTarget = AlphaTargetDrag,
                                 ![svgOf].running = TRUE]
               ELSE sims
    /\ heap' = [heap EXCEPT ![s].fx = <<heap[s].x>>, ![s].fy = <<heap[s].y>>]
    /\ gestures' = [gestures EXCEPT ![p] = <<svgOf, s, FALSE>>]
    /\ UNCHANGED <<props, mounted, svgOf, highlight, fill, over, opened>>

\* A pointer move of a gesture: d3-drag notes that the pointer has moved
\* (more than its clickDistance of 0) and dispatches 'drag'.
dragging(p, pt) ==
    /\ gestures[p] # << >>
    /\ heap' = [heap EXCEPT ![gestures[p][2]].fx = <<pt[1]>>,
                            ![gestures[p][2]].fy = <<pt[2]>>]
    /\ gestures' = [gestures EXCEPT ![p][3] = TRUE]
    /\ heap' # heap \/ gestures' # gestures
    /\ UNCHANGED <<props, mounted, sims, svgOf, highlight, fill, over, opened>>

\* dragend without its simulation.alphaTarget(0).
dragendKeepingTarget(p) ==
    /\ gestures[p] # << >>
    /\ gestures' = [gestures EXCEPT ![p] = << >>]
    /\ heap' = [heap EXCEPT ![gestures[p][2]].fx = << >>,
                            ![gestures[p][2]].fy = << >>]
    /\ UNCHANGED <<props, mounted, sims, svgOf, highlight, fill, over>>

\* dragend that calls simulation.alphaTarget(0) whatever event.active is.
dragendAlwaysResting(p) ==
    /\ gestures[p] # << >>
    /\ gestures' = [gestures EXCEPT ![p] = << >>]
    /\ sims' = [sims EXCEPT ![gestures[p][1]].alphaTarget = AlphaTargetRest]
    /\ heap' = [heap EXCEPT ![gestures[p][2]].fx = << >>,
                            ![gestures[p][2]].fy = << >>]
    /\ UNCHANGED <<props, mounted, svgOf, highlight, fill, over>>

dragend(p) ==
    /\ gestures[p] # << >>
    /\ gestures' = [gestures EXCEPT ![p] = << >>]
    /\ LET i == gestures[p][1]
       IN sims' = IF Active(gestures', i) = 0
                  THEN [sims EXCEPT ![i].alphaTarget = AlphaTargetRest]
                  ELSE sims
    /\ heap' = [heap EXCEPT ![gestures[p][2]].fx = << >>,
                            ![gestures[p][2]].fy = << >>]
    /\ UNCHANGED <<props, mounted, svgOf, highlight, fill, over>>

\* The click the browser dispatches after the pointer-up of gesture g, with
\* no suppression by d3-drag.
ClickedUnsuppressed(g) == IF g[1] = svgOf THEN <<g[2]>> ELSE << >>

\* The click the browser dispatches after the pointer-up of gesture g: on
\* the circle, if it is still in the container, unless d3-drag suppresses it
\* because the pointer has moved; its handler opens the site's link.
Clicked(g) == IF g[1] = svgOf /\ ~g[3] THEN <<g[2]>> ELSE << >>

\* The pointer-up of a gesture: 'end', then the click.
pointerup(p) ==
    /\ dragend(p)
    /\ opened' = Clicked(gestures[p])

----------------------------------------------------------------------------
(* Specifications. *)

\* hoveredSite and hoveredProgram, null or the name or program of a site.
NoHighlight == [site |-> << >>, program |-> << >>]
Highlights ==
    {[site |-> n, program |-> g] :
        n \in {<< >>} \cup {<<SiteName(s)>> : s \in SiteIds},
        g \in {<< >>} \cup {<<SiteProgram(s)>> : s \in SiteIds}}

UnmountedWith(p, h) ==
    /\ props = p
    /\ mounted = FALSE
    /\ heap = [s \in SiteIds |-> FreshNode]
    /\ sims = << >>
    /\ svgOf = 0
    /\ gestures = [p0 \in Pointers |-> << >>]
    /\ highlight = h
    /\ fill = [s \in SiteIds |-> NoCircle]
    /\ over = 0
    /\ opened = << >>

Unmounted(p) == UnmountedWith(p, NoHighlight)

Props(sites, field, dir) == [sites |-> sites, sortField |-> field, sortDirection |-> dir]

\* The lifecycle of the layout effect: the props the page passes over time
\* are the first sites in either order, sorted by name; every simulation is
\* followed for MaxTicks ticks and their draws.
LifecycleProps ==
    {Props(sites, "name", dir) : sites \in {<< >>, <<1>>, <<2, 1>>}, dir \in {"asc", "desc"}}

Init == \E p \in LifecycleProps : Unmounted(p)

Next ==
    \/ Mount(Points)
    \/ \E p \in LifecycleProps : Rerender(p, Points)
    \/ \E i \in Sims : sims[i].ticks < MaxTicks /\ Step(i)
    \/ \E i \in Sims : UpdateDOM(i)

Spec == Init /\ [][Next]_vars

\* The topology build and the camera: the effect's first run, for every list
\* of sites and every sort, and the zoom gestures on its svg.
InitBuild ==
    \E sites \in AllSiteLists, field \in SortFields, dir \in SortDirections :
        Unmounted(Props(sites, field, dir))

NextBuild ==
    \/ Mount(Points)
    \/ \E i \in Sims, in \in BOOLEAN : UserZoom(i, in)

SpecBuild == InitBuild /\ [][NextBuild]_vars

\* Drags on one layout of two sites: every simulation is followed for
\* MaxTicks ticks.
InitDrag == Unmounted(Props(<<1, 2>>, "name", "asc"))

NextDrag ==
    \/ Mount(Points)
    \/ \E i \in Sims : sims[i].ticks < MaxTicks /\ Step(i)
    \/ \E p \in Pointers, s \in SiteIds : dragstart(p, s)
    \/ \E p \in Pointers, pt \in Points : dragging(p, pt)
    \/ \E p \in Pointers : pointerup(p)

SpecDrag == InitDrag /\ [][NextDrag]_vars

\* One layout of one site, at the origin.
Origin == {<<0, 0>>}

InitEnergy == Unmounted(Props(<<1>>, "name", "asc"))

\* Its energy, followed to the end: ticks, and drags (which may overlap)
\* whose pointers stay where they went down.
NextEnergy ==
    \/ Mount(Origin)
    \/ \E i \in Sims : Step(i)
    \/ \E p \in Pointers, s \in SiteIds : dragstart(p, s)
    \/ \E p \in Pointers : pointerup(p)

SpecEnergy == InitEnergy /\ [][NextEnergy]_vars

\* Its camera, followed to the end: ticks, animation frames, zoom gestures,
\* and the drags of one pointer.
NextCamera ==
    \/ Mount(Origin)
    \/ \E i \in Sims : Step(i)
    \/ \E i \in Sims : UpdateDOM(i)
    \/ \E i \in Sims, in \in BOOLEAN : UserZoom(i, in)
    \/ \E s \in SiteIds : dragstart(1, s)
    \/ pointerup(1)

SpecCamera == InitEnergy /\ [][NextCamera]_vars

----------------------------------------------------------------------------
(* Properties. *)

\* The simulations whose timer is running.
Stepping == {i \in Sims : sims[i].running}

\* Site s is the subject of a drag gesture in progress.
Dragged(s) == \E p \in Pointers : gestures[p] # << >> /\ gestures[p][2] = s

\* C1: after any sequence of layout builds at most one simulation is
\* stepping, and no two stepping simulations hold the same site object.
C1_OneStepper ==
    /\ Cardinality(Stepping) <= 1
    /\ \A i, j \in Stepping : i # j => NodesOf(i) \cap NodesOf(j) = {}

\* C2: once a draw has seen alpha below 0.5, the automatic frame-to-fit
\* transition has been started.
C2_FitFires ==
    \A i \in Sims : sims[i].lowDraws >= 1 => sims[i].fitStarts >= 1

\* C3: in one layout lifetime the automatic frame-to-fit transition is
\* started at most once, whatever the ticks, draws, drags and zoom gestures.
C3_FitAtMostOnce ==
    \A i \in Sims : sims[i].fitStarts <= 1

\* Two draws of one layout have seen alpha below 0.5, the later one during a
\* drag, after a zoom gesture.
C3_Witness ==
    \E i \in Sims : /\ sims[i].lowDraws >= 2
                    /\ sims[i].alphaTarget = AlphaTargetDrag
                    /\ sims[i].k # IdentityScale

InExtent(k) == MinScale <= k /\ k <= MaxScale

\* C4: the camera scale is within [minScale, maxScale] in every state, and so
\* is the target scale of the frame-to-fit transition for the layout's node
\* count.
C4_ScaleInExtent ==
    \A i \in Sims : InExtent(sims[i].k) /\ InExtent(InitialScale(Len(sims[i].nodes)))

\* The link that leaves the node of id a, and the node it leads to.
LinksFrom(links, a) == {j \in DOMAIN links : links[j].source = a}
LinksTo(links, a) == {j \in DOMAIN links : links[j].target = a}
\* The ids reached from id a in at most n steps along the links.
RECURSIVE Reached(_, _, _)
Reached(links, from, n) ==
    IF n = 0 THEN from
    ELSE Reached(links, from \cup {links[j].target : j \in {l \in DOMAIN links : links[l].source \in from}}, n - 1)

\* C5: a build of N >= 2 sites has N nodes with the distinct ids 0..N-1 in
\* sorted order and N links, link i from node i to node (i+1) mod N: every
\* node has degree 2 and the links form one cycle through all nodes.
C5_RingTopology ==
    \A i \in Sims :
        LET nodes == sims[i].nodes
            links == sims[i].links
            n == Len(props.sites)
        IN n >= 2 =>
             /\ Len(nodes) = n /\ Range(nodes) = Range(props.sites)
             /\ \A j \in 1..n : heap[nodes[j]].id = <<j - 1>>
             /\ Len(links) = n
             /\ \A j \in 1..n : links[j].source = j - 1 /\ links[j].target = j % n
             /\ \A a \in 0..(n - 1) :
                    /\ Cardinality(LinksFrom(links, a)) + Cardinality(LinksTo(links, a)) = 2
                    /\ Reached(links, {a}, n - 1) = 0..(n - 1)
                    /\ a \notin Reached(links, {links[j].target : j \in LinksFrom(links, a)}, n - 2)

\* A build of MaxSites sites whose sort changed their order.
C5_Witness ==
    \E i \in Sims : /\ Len(sims[i].nodes) = MaxSites
                    /\ MaxSites >= 2
                    /\ sims[i].nodes # props.sites
                    /\ props.sortField = "year"

\* C6: a build of exactly one site has one node and no link.
C6_SingleNoEdges ==
    \A i \in Sims : Len(sims[i].nodes) = 1 => Len(sims[i].links) = 0

\* C7: while the current site list is empty no simulation is stepping, no
\* draw is pending and the container holds no svg.
C7_EmptyIsCold ==
    Len(props.sites) = 0 =>
        /\ Stepping = {}
        /\ \A i \in Sims : ~sims[i].frameScheduled
        /\ svgOf = 0

\* C8: after every tick, each node of the simulation that is being dragged is
\* at its fixed position with velocity 0.
C8_DraggedNodePinned ==
    [][\A i \in Sims :
          sims'[i].ticks = sims[i].ticks + 1 =>
             \A s \in NodesOf(i) :
                 Dragged(s) =>
                    /\ heap'[s].fx # << >> /\ heap'[s].x = heap'[s].fx[1] /\ heap'[s].vx = 0
                    /\ heap'[s].fy # << >> /\ heap'[s].y = heap'[s].fy[1] /\ heap'[s].vy = 0]_vars

\* C9: alpha is above 0 and at most its initial value 1 in every state.
C9_AlphaBounds ==
    \A i \in Sims : 0 < sims[i].alpha /\ sims[i].alpha <= AlphaInit

\* A drag has begun on a simulation that had cooled below alphaMin.
C9_Witness ==
    \E i \in Sims : /\ sims[i].alpha < AlphaMin
                    /\ sims[i].alphaTarget = AlphaTargetDrag
                    /\ sims[i].running

\* C10: a step taken while no drag of the simulation is in progress does not
\* increase its alpha.
C10_NoDragNoRise ==
    [][\A i \in Sims : Active(gestures, i) = 0 => sims'[i].alpha <= sims[i].alpha]_vars

\* One tick during a drag that began at once, then one tick after its end.
C10_Witness ==
    \E i \in Sims :
        /\ Active(gestures, i) = 0
        /\ sims[i].alphaTarget = AlphaTargetRest
        /\ sims[i].alpha = AlphaNext(AlphaNext(AlphaInit, AlphaTargetDrag), AlphaTargetRest)

----------------------------------------------------------------------------
\* Ticks and draws on a layout of two sites, with the drags of one pointer
\* and at most MaxTicks ticks per simulation. The browser runs every animation frame callback it was handed,
\* hence the fairness of UpdateDOM.
NextDraw ==
    \/ Mount(Points)
    \/ \E i \in Sims : sims[i].ticks < MaxTicks /\ Step(i)
    \/ \E i \in Sims : UpdateDOM(i)
    \/ \E s \in SiteIds : dragstart(1, s)
    \/ pointerup(1)

SpecDraw ==
    InitDrag /\ [][NextDraw]_vars /\ WF_vars(\E i \in Sims : UpdateDOM(i))

\* C11: per layout instance at most one draw is pending at any time, and the
\* pending flag is set exactly while that draw is pending: a tick that arrives
\* while a draw is scheduled schedules no further one, and the flag is cleared
\* when the draw runs.
C11_OneDrawPending ==
    \A i \in Sims :
        /\ sims[i].pending <= 1
        /\ sims[i].frameScheduled <=> sims[i].pending = 1

\* Two ticks have arrived and no draw has run yet: the second tick came while
\* the draw of the first was pending.
C11_Witness ==
    \E i \in Sims :
        /\ sims[i].ticks >= 2
        /\ sims[i].drawn = << >>
        /\ sims[i].pending = 1

\* C12: the energy target of a layout instance is 0.3 exactly while at least
\* one drag gesture on it is active and 0 otherwise, for any nesting of
\* overlapping drags.
C12_TargetIffDragging ==
    \A i \in Sims :
        sims[i].alphaTarget =
            IF Active(gestures, i) > 0 THEN AlphaTargetDrag ELSE AlphaTargetRest

\* One of two overlapping drags has ended and the other is still active,
\* after the engine has stepped under both.
C12_Witness ==
    \E i \in Sims :
        /\ Active(gestures, i) = 1
        /\ gestures[1] = << >>
        /\ opened # << >>
        /\ sims[i].alpha > AlphaInit \div 2
        /\ sims[i].alpha < AlphaInit
        /\ sims[i].alphaTarget = AlphaTargetDrag

----------------------------------------------------------------------------
\* The pointer entering and leaving the circles of a layout of MaxSites sites
\* while the parent changes hoveredSite and hoveredProgram.
InitHover ==
    \E h \in Highlights :
        UnmountedWith(Props([j \in 1..MaxSites |-> j], "none", "none"), h)

NextHover ==
    \/ Mount(Origin)
    \/ \E h \in Highlights : SetHighlight(h)
    \/ \E s \in SiteIds : mouseenter(s)
    \/ \E s \in SiteIds : mouseleave(s)

SpecHover == InitHover /\ [][NextHover]_vars

\* C13: a circle's fill is the highlight colour whenever hoveredProgram or
\* hoveredSite matches its site or the pointer is over it.
C13_HighlightCoexists ==
    \A s \in SiteIds :
        (fill[s] # NoCircle /\ (Highlighted(highlight, s) \/ over = s))
            => fill[s] = HoverColor

----------------------------------------------------------------------------
\* Rebuilds of the layout while the parent changes hoveredSite and
\* hoveredProgram, with no pointer on the circles.
InitHighlight == \E p \in LifecycleProps, h \in Highlights : UnmountedWith(p, h)

NextHighlight ==
    \/ Mount(Origin)
    \/ \E p \in LifecycleProps : Rerender(p, Origin)
    \/ \E h \in Highlights : SetHighlight(h)

SpecHighlight == InitHighlight /\ [][NextHighlight]_vars

\* C19: whenever hoveredProgram or hoveredSite matches a site of the current
\* layout, its circle's fill is the highlight colour, also after a rebuild.
C19_HighlightSurvivesRebuild ==
    \A s \in SiteIds :
        (fill[s] # NoCircle /\ Highlighted(highlight, s)) => fill[s] = HoverColor

----------------------------------------------------------------------------
\* Rebuilds of the layout while gestures are in flight.
NextRebuild ==
    \/ Mount(Points)
    \/ \E p \in LifecycleProps : Rerender(p, Points)
    \/ \E p \in Pointers, s \in SiteIds : dragstart(p, s)
    \/ \E p \in Pointers : pointerup(p)

SpecRebuild == Init /\ [][NextRebuild]_vars

\* C14: immediately after a build no node of the new instance carries a fixed
\* override and the new engine's target is 0, also when a node of the old
\* instance was pinned by a drag in flight.
C14_RebuildDiscardsDrag ==
    [][Len(sims') > Len(sims) =>
          /\ sims'[Len(sims')].alphaTarget = AlphaTargetRest
          /\ \A j \in 1..Len(sims'[Len(sims')].nodes) :
                /\ heap'[sims'[Len(sims')].nodes[j]].fx = << >>
                /\ heap'[sims'[Len(sims')].nodes[j]].fy = << >>]_vars

----------------------------------------------------------------------------
\* The gestures of one pointer, with and without movement, on a layout of
\* two sites, at most MaxTicks ticks per simulation.
NextClick ==
    \/ Mount(Points)
    \/ \E i \in Sims : sims[i].ticks < MaxTicks /\ Step(i)
    \/ \E s \in SiteIds : dragstart(1, s)
    \/ \E pt \in Points : dragging(1, pt)
    \/ pointerup(1)

SpecClick == InitDrag /\ [][NextClick]_vars

\* C15: a pointer-up that follows the pointer-down on a node with no movement
\* in between opens that node's link, once; a pointer-up after movement opens
\* no link.
C15_ClickOrDrag ==
    [][\A p \in Pointers :
          (gestures[p] # << >> /\ gestures'[p] = << >>) =>
              opened' = IF gestures[p][3] THEN << >> ELSE <<gestures[p][2]>>]_vars

\* A pointer-down and pointer-up on a node with no movement has opened its
\* link and left the node free.
C15_Witness ==
    \E s \in SiteIds :
        /\ opened = <<s>>
        /\ gestures[1] = << >>
        /\ heap[s].fx = << >>

\* C16: a node carries a fixed override exactly while a drag on it is in
\* progress.
C16_FixedIffDragged ==
    \A s \in SiteIds :
        (heap[s].fx # << >> \/ heap[s].fy # << >>) <=> Dragged(s)

----------------------------------------------------------------------------
\* One simulation of one site followed until it stops, with its draws and the
\* drags of one pointer. The timer steps a running simulation on every frame
\* and the browser runs every animation frame callback, hence the fairness of
\* Step and UpdateDOM.
NextSettle ==
    \/ Mount(Origin)
    \/ \E i \in Sims : Step(i)
    \/ \E i \in Sims : UpdateDOM(i)
    \/ \E s \in SiteIds : dragstart(1, s)
    \/ pointerup(1)

SpecSettle ==
    /\ InitEnergy
    /\ [][NextSettle]_vars
    /\ WF_vars(\E i \in Sims : Step(i))
    /\ WF_vars(\E i \in Sims : UpdateDOM(i))

NoDrag == \A p \in Pointers : gestures[p] = << >>
Idle == sims # << >> /\ ~sims[1].running /\ sims[1].alpha < AlphaMin

\* C17: while no drag is active the engine's energy eventually falls below
\* the stop threshold and the engine becomes idle, and an idle engine neither
\* ticks nor schedules a draw until a drag begins.
C17_Settles ==
    /\ (sims # << >> /\ NoDrag) ~> (Idle \/ ~NoDrag)
    /\ [][(Idle /\ NoDrag') =>
            /\ sims'[1].alpha = sims[1].alpha
            /\ sims'[1].ticks = sims[1].ticks
            /\ sims'[1].pending <= sims[1].pending
            /\ ~sims'[1].running]_vars

\* The engine has stopped below the threshold after a drag that had reheated
\* it, and its last draw has run.
C17_Witness ==
    /\ Idle
    /\ NoDrag
    /\ opened # << >>
    /\ sims[1].pending = 0

\* C18: while a drag on a layout instance is active its engine is running
\* toward the target 0.3, whatever state the engine was in, idle included,
\* when the drag began.
C18_DragKeepsRunning ==
    \A i \in Sims :
        Active(gestures, i) > 0 =>
            /\ sims[i].running
            /\ sims[i].alphaTarget = AlphaTargetDrag

\* A drag that began on an idle engine is active, and the engine has ticked
\* since: its energy is one step from below the threshold toward 0.3.
C18_Witness ==
    \E i \in Sims :
        /\ Active(gestures, i) > 0
        /\ sims[i].running
        /\ \E a \in 1..(AlphaMin - 1) : sims[i].alpha = AlphaNext(a, AlphaTargetDrag)

\* C20: no tick is lost to coalescing: whenever no draw is pending, what the
\* last draw wrote is the positions the last tick left, and every pending draw
\* eventually runs.
C20_NoTickLost ==
    /\ [](\A i \in Sims :
            sims[i].pending = 0 =>
                (sims[i].ticks = 0 \/ sims[i].drawn = Drawing(sims[i])))
    /\ \A i \in 1..MaxBuilds :
            (i \in Sims /\ sims[i].pending > 0) ~> (i \in Sims /\ sims[i].pending = 0)

\* After MaxTicks ticks, the last of which moved a node, no draw is pending
\* and the circles and lines are where that tick left the nodes.
C20_Witness ==
    \E i \in Sims :
        /\ sims[i].ticks = MaxTicks
        /\ sims[i].pending = 0
        /\ sims[i].drawn = Drawing(sims[i])
        /\ \E s \in NodesOf(i) : heap[s].vx # 0
====
